---------------------------- MODULE Spec2Model ----------------------------
(***************************************************************************)
(* Connect 4 Game Hub: the in-memory registry of games (app/api/routes.py) *)
(* and the game engine GameLogic (app/models/models.py).                   *)
(*                                                                         *)
(* One action per route handler.  Every handler runs to completion and     *)
(* leaves its HTTP outcome in resp: status_code 200 with a body, a 4xx     *)
(* HTTPException with its detail, or 500 when an exception other than      *)
(* HTTPException escapes the handler.  The definitions marked `variant`    *)
(* are faulty versions of the definition that follows them; the            *)
(* properties at the end are checked to tell the two apart.                *)
(***************************************************************************)
EXTENDS Integers, Sequences, FiniteSets, TLC

VARIABLES
    games,   \* routes.py `games`: dict game id -> GameLogic (its .game fields)
    prev,    \* `games` as the most recent request found it
    used,    \* ids uuid4 has handed out so far (uuid4 never repeats one)
    resp,    \* the most recent request and its outcome
    calls,   \* number of requests so far that changed `games`
    threads  \* per worker thread: where it is in GameLogic.make_move, its locals

vars == <<games, prev, used, resp, calls, threads>>

----------------------------------------------------------------------------
(* Program constants *)

ROWS == 6
COLS == 7

(* Bounds of the model *)

\* requests that change `games`, counted from the initial state
MaxCalls == 2

Rows == 0 .. (ROWS - 1)
Cols == 0 .. (COLS - 1)

\* Python's None, as a cell, a winner or a missing query parameter
None == "None"

IN_PROGRESS == "in-progress"
WON == "won"
DRAW == "draw"

\* ids uuid4 can return in the model; they are also the game_id path
\* parameters of requests (an id not yet issued, or quit, is an unknown id)
GameIds == {"g1", "g2"}

\* player_id query parameter: the two slots and some other string
PlayerIdArgs == {"p1", "p2", "p3"}
\* column query parameter: every column, one below and one above the range
ColumnArgs == (0 - 1) .. COLS

Player1NameArgs == {None, "Alice"}
Player2NameArgs == {None, "Bob"}
NumHumanPlayers == {0, 1, 2}

----------------------------------------------------------------------------
(* GameLogic: the engine *)

EmptyBoard == [r \in Rows |-> [c \in Cols |-> None]]

Player(id, name, color, type) ==
    [id |-> id, name |-> name, color |-> color, type |-> type]

\* variant: the two player types are passed on in the wrong order
NewGame_types_swapped(id, player1_name, player2_name, player1_type, player2_type, num_human_players) ==
    [id |-> id,
     board |-> EmptyBoard,
     players |-> [p1 |-> Player("p1", player1_name, "red", player2_type),
                  p2 |-> Player("p2", player2_name, "yellow", player1_type)],
     current_turn |-> "p1",
     status |-> IN_PROGRESS,
     winner |-> None,
     num_players |-> num_human_players]

\* GameLogic.__init__: the Game built for a new GameLogic
NewGame(id, player1_name, player2_name, player1_type, player2_type, num_human_players) ==
    [id |-> id,
     board |-> EmptyBoard,
     players |-> [p1 |-> Player("p1", player1_name, "red", player1_type),
                  p2 |-> Player("p2", player2_name, "yellow", player2_type)],
     current_turn |-> "p1",
     status |-> IN_PROGRESS,
     winner |-> None,
     num_players |-> num_human_players]

\* Player(name=...) with name: str raises pydantic's ValidationError on None
PlayerValidates(name) == name # None

RECURSIVE check_direction_from(_, _, _, _, _, _, _, _)
\* the loop of check_direction from `delta` on, entered with `count`
check_direction_from(board, row, column, row_dir, col_dir, player_id, delta, count) ==
    IF delta > 3 THEN FALSE
    ELSE LET r == row + delta * row_dir
             c == column + delta * col_dir
         IN  IF r \in Rows /\ c \in Cols /\ board[r][c] = player_id
             THEN IF count + 1 = 4 THEN TRUE
                  ELSE check_direction_from(board, row, column, row_dir, col_dir,
                                            player_id, delta + 1, count + 1)
             ELSE check_direction_from(board, row, column, row_dir, col_dir,
                                       player_id, delta + 1, 0)

\* variant: the scan starts at the placed cell instead of three cells before it
check_direction_forward(board, row, column, row_dir, col_dir, player_id) ==
    check_direction_from(board, row, column, row_dir, col_dir, player_id, 0, 0)

check_direction(board, row, column, row_dir, col_dir, player_id) ==
    check_direction_from(board, row, column, row_dir, col_dir, player_id, 0 - 3, 0)

\* variant: the diagonal running up to the right is not checked
check_winner_three_lines(board, row, column) ==
    LET player_id == board[row][column]
    IN  \/ check_direction(board, row, column, 1, 0, player_id)
        \/ check_direction(board, row, column, 0, 1, player_id)
        \/ check_direction(board, row, column, 1, 1, player_id)

check_winner(board, row, column) ==
    LET player_id == board[row][column]
    IN  \/ check_direction(board, row, column, 1, 0, player_id)
        \/ check_direction(board, row, column, 0, 1, player_id)
        \/ check_direction(board, row, column, 1, 1, player_id)
        \/ check_direction(board, row, column, 1, 0 - 1, player_id)

\* all(cell is not None for row in board for cell in row)
BoardFull(board) == \A r \in Rows : \A c \in Cols : board[r][c] # None

RECURSIVE first_free_row(_, _, _)
\* for row in reversed(range(6)): the first row, from `row` upward, whose
\* cell in `column` is None; -1 when the loop ends without finding one
first_free_row(board, column, row) ==
    IF row < 0 THEN 0 - 1
    ELSE IF board[row][column] = None THEN row
    ELSE first_free_row(board, column, row - 1)

\* variant: range(6) without reversed, the loop stops at the top row
DropRow_top(board, column) == IF board[0][column] = None THEN 0 ELSE 0 - 1

\* the cell make_move writes: the row its loop stops at
DropRow(board, column) == first_free_row(board, column, ROWS - 1)

\* variant: the turn is not passed on
OtherTurn_stuck(current_turn) == current_turn

\* current_turn after a move that decides nothing
OtherTurn(current_turn) == IF current_turn = "p1" THEN "p2" ELSE "p1"

\* variant: the first check of make_move tests for a draw
AlreadyWon_draw_only(game) == game.status = DRAW

\* variant: the first check of make_move left out
AlreadyWon_never(game) == FALSE

\* the guard of make_move's first check
AlreadyWon(game) == game.winner # None

\* variant: the full board is tested before the four in line
PlacePiece_draw_first(game, player_id, row, column) ==
    LET board == [game.board EXCEPT ![row][column] = player_id]
        placed == [game EXCEPT !.board = board]
    IN  IF BoardFull(board)
        THEN [placed EXCEPT !.status = DRAW]
        ELSE IF check_winner(board, row, column)
        THEN [placed EXCEPT !.winner = player_id, !.status = WON]
        ELSE [placed EXCEPT !.current_turn = OtherTurn(game.current_turn)]

\* variant: the turn is passed on after every placement
PlacePiece_always_passes_turn(game, player_id, row, column) ==
    LET board == [game.board EXCEPT ![row][column] = player_id]
        placed == [game EXCEPT !.board = board,
                               !.current_turn = OtherTurn(game.current_turn)]
    IN  IF check_winner(board, row, column)
        THEN [placed EXCEPT !.winner = player_id, !.status = WON]
        ELSE IF BoardFull(board)
        THEN [placed EXCEPT !.status = DRAW]
        ELSE placed

\* variant: the full board is not tested for
PlacePiece_no_draw(game, player_id, row, column) ==
    LET board == [game.board EXCEPT ![row][column] = player_id]
        placed == [game EXCEPT !.board = board]
    IN  IF check_winner(board, row, column)
        THEN [placed EXCEPT !.winner = player_id, !.status = WON]
        ELSE [placed EXCEPT !.current_turn = OtherTurn(game.current_turn)]

\* make_move from the write on: the piece placed at (row, column)
PlacePiece(game, player_id, row, column) ==
    LET board == [game.board EXCEPT ![row][column] = player_id]
        placed == [game EXCEPT !.board = board]
    IN  IF check_winner(board, row, column)
        THEN [placed EXCEPT !.winner = player_id, !.status = WON]
        ELSE IF BoardFull(board)
        THEN [placed EXCEPT !.status = DRAW]
        ELSE [placed EXCEPT !.current_turn = OtherTurn(game.current_turn)]

ErrorDict(msg) == [isdict |-> TRUE, error |-> msg]

\* variant: the piece is written before the turn is checked
GameLogic_make_move_write_first(game, player_id, column) ==
    IF AlreadyWon(game)
    THEN [game |-> game, ret |-> ErrorDict("Game already won.")]
    ELSE IF column < 0 \/ column >= COLS
    THEN [game |-> game, ret |-> ErrorDict("Column out of bounds.")]
    ELSE IF game.board[0][column] # None
    THEN [game |-> game, ret |-> ErrorDict("Column is full.")]
    ELSE LET placed == PlacePiece(game, player_id, DropRow(game.board, column), column)
         IN  IF game.current_turn # player_id
             THEN [game |-> placed, ret |-> ErrorDict("It's not your turn.")]
             ELSE [game |-> placed, ret |-> [isdict |-> FALSE]]

\* variant: the column is checked before the turn
GameLogic_make_move_bounds_first(game, player_id, column) ==
    IF AlreadyWon(game)
    THEN [game |-> game, ret |-> ErrorDict("Game already won.")]
    ELSE IF column < 0 \/ column >= COLS
    THEN [game |-> game, ret |-> ErrorDict("Column out of bounds.")]
    ELSE IF game.current_turn # player_id
    THEN [game |-> game, ret |-> ErrorDict("It's not your turn.")]
    ELSE IF game.board[0][column] # None
    THEN [game |-> game, ret |-> ErrorDict("Column is full.")]
    ELSE [game |-> PlacePiece(game, player_id, DropRow(game.board, column), column),
          ret |-> [isdict |-> FALSE]]

\* variant: the full column is detected at its bottom cell instead of its top
GameLogic_make_move_full_at_bottom(game, player_id, column) ==
    IF AlreadyWon(game)
    THEN [game |-> game, ret |-> ErrorDict("Game already won.")]
    ELSE IF game.current_turn # player_id
    THEN [game |-> game, ret |-> ErrorDict("It's not your turn.")]
    ELSE IF column < 0 \/ column >= COLS
    THEN [game |-> game, ret |-> ErrorDict("Column out of bounds.")]
    ELSE IF game.board[ROWS - 1][column] # None
    THEN [game |-> game, ret |-> ErrorDict("Column is full.")]
    ELSE [game |-> PlacePiece(game, player_id, DropRow(game.board, column), column),
          ret |-> [isdict |-> FALSE]]

\* variant: the turn check left out
GameLogic_make_move_any_slot(game, player_id, column) ==
    IF AlreadyWon(game)
    THEN [game |-> game, ret |-> ErrorDict("Game already won.")]
    ELSE IF column < 0 \/ column >= COLS
    THEN [game |-> game, ret |-> ErrorDict("Column out of bounds.")]
    ELSE IF game.board[0][column] # None
    THEN [game |-> game, ret |-> ErrorDict("Column is full.")]
    ELSE [game |-> PlacePiece(game, player_id, DropRow(game.board, column), column),
          ret |-> [isdict |-> FALSE]]

\* variant: the full-column check left out, a full column ends in the fallback
GameLogic_make_move_no_full_check(game, player_id, column) ==
    IF AlreadyWon(game)
    THEN [game |-> game, ret |-> ErrorDict("Game already won.")]
    ELSE IF game.current_turn # player_id
    THEN [game |-> game, ret |-> ErrorDict("It's not your turn.")]
    ELSE IF column < 0 \/ column >= COLS
    THEN [game |-> game, ret |-> ErrorDict("Column out of bounds.")]
    ELSE LET row == DropRow(game.board, column)
         IN  IF row >= 0
             THEN [game |-> PlacePiece(game, player_id, row, column),
                   ret |-> [isdict |-> FALSE]]
             ELSE [game |-> game, ret |-> ErrorDict("Invalid move.")]

\* GameLogic.make_move: the game afterwards and the value returned, either a
\* dict holding "error" or the Game itself
GameLogic_make_move(game, player_id, column) ==
    IF AlreadyWon(game)
    THEN [game |-> game, ret |-> ErrorDict("Game already won.")]
    ELSE IF game.current_turn # player_id
    THEN [game |-> game, ret |-> ErrorDict("It's not your turn.")]
    ELSE IF column < 0 \/ column >= COLS
    THEN [game |-> game, ret |-> ErrorDict("Column out of bounds.")]
    ELSE IF game.board[0][column] # None
    THEN [game |-> game, ret |-> ErrorDict("Column is full.")]
    ELSE LET row == DropRow(game.board, column)
         IN  IF row >= 0
             THEN [game |-> PlacePiece(game, player_id, row, column),
                   ret |-> [isdict |-> FALSE]]
             ELSE [game |-> game, ret |-> ErrorDict("Invalid move.")]

\* empty_columns of get_next_move
empty_columns(board) == {col \in Cols : board[0][col] = None}

\* GameLogic.get_next_move: every value it can return, an error dict or an
\* int drawn by random.choice
GameLogic_get_next_move(game) ==
    IF game.winner # None
    THEN {ErrorDict("Game already won.")}
    ELSE IF BoardFull(game.board)
    THEN {ErrorDict("Board is full.")}
    ELSE IF empty_columns(game.board) = {}
    THEN {ErrorDict("No valid moves available")}
    ELSE {[isdict |-> FALSE, int |-> col] : col \in empty_columns(game.board)}


----------------------------------------------------------------------------
(* Responses: the request (op and its parameters) and what the caller gets, *)
(* the status code and the JSON body; `detail` is the detail of an         *)
(* HTTPException or the name of the exception behind a 500.  A JSON array  *)
(* is the `items` of its body.                                             *)

\* the column of a request that has none
NoColumn == COLS + COLS

\* the creation parameters of a request that has none
NoArgs == [player1_name |-> None, player2_name |-> None, num_human_players |-> 0]

\* a 200 response carrying `body`
Ok(op, game_id, player_id, column, body) ==
    [op |-> op, game_id |-> game_id, player_id |-> player_id, column |-> column,
     args |-> NoArgs, status_code |-> 200, detail |-> None, body |-> body]

\* raise HTTPException(status_code, detail)
HTTPException(op, game_id, player_id, column, status_code, detail) ==
    [op |-> op, game_id |-> game_id, player_id |-> player_id, column |-> column,
     args |-> NoArgs, status_code |-> status_code, detail |-> detail,
     body |-> [detail |-> detail]]

\* an exception that is not an HTTPException leaves the handler: the server
\* answers 500
Unhandled(op, game_id, player_id, column, exception) ==
    [op |-> op, game_id |-> game_id, player_id |-> player_id, column |-> column,
     args |-> NoArgs, status_code |-> 500, detail |-> exception,
     body |-> [detail |-> "Internal Server Error"]]

\* a str query parameter as a condition: None and "" are false
Truthy(name) == name # None /\ name # ""

\* the keys of a dict returned by the engine
DictKeys(v) == IF v.isdict THEN DOMAIN v \ {"isdict"} ELSE {}

----------------------------------------------------------------------------
(* Route handlers *)

\* A request is taken up.  No handler reads resp, so a request that left
\* `games` as it was has no influence on what follows it: requests are
\* explored from the initial states and from the states a request has changed.
Ready == resp.op = "none" \/ games # prev

\* The end of every handler: the registry and the response it leaves.
\* At most MaxCalls requests change `games`.
Step(games2, used2, resp2) ==
    /\ games2 # games => calls < MaxCalls
    /\ games' = games2
    /\ prev' = games
    /\ used' = used2
    /\ resp' = resp2
    /\ calls' = IF games2 # games THEN calls + 1 ELSE calls
    /\ UNCHANGED threads

\* GET /games
list_games ==
    /\ Ready
    /\ Step(games, used,
            Ok("list_games", None, None, NoColumn,
               [items |-> {games[i] : i \in DOMAIN games}]))

\* the response r to a create request with these query parameters
Created(r, player1_name, player2_name, num_human_players) ==
    [r EXCEPT !.args = [player1_name |-> player1_name, player2_name |-> player2_name,
                        num_human_players |-> num_human_players]]

\* POST /games
create_game(player1_name, player2_name, num_human_players) ==
    LET Answer(r) == Created(r, player1_name, player2_name, num_human_players)
    IN
    /\ Ready
    /\ IF num_human_players = 1 /\ ~Truthy(player1_name)
       THEN Step(games, used,
                 Answer(HTTPException("create_game", None, None, NoColumn, 400,
                                      "Player 1 name is required for one human player.")))
       ELSE IF num_human_players = 2 /\ (~Truthy(player1_name) \/ ~Truthy(player2_name))
       THEN Step(games, used,
                 Answer(HTTPException("create_game", None, None, NoColumn, 400,
                                      "Both player names are required for two human players.")))
       ELSE LET player1_type == IF num_human_players > 0 THEN "human" ELSE "computer"
                player2_type == IF num_human_players > 1 THEN "human" ELSE "computer"
            IN  IF ~PlayerValidates(player1_name) \/ ~PlayerValidates(player2_name)
                THEN Step(games, used,
                          Answer(Unhandled("create_game", None, None, NoColumn,
                                           "ValidationError")))
                ELSE \E id \in GameIds \ used :
                       LET game == NewGame(id, player1_name, player2_name,
                                           player1_type, player2_type, num_human_players)
                       IN  Step((id :> game) @@ games, used \cup {id},
                                Answer(Ok("create_game", id, None, NoColumn, game)))

\* GET /games/{game_id}
get_game(game_id) ==
    /\ Ready
    /\ IF game_id \notin DOMAIN games
       THEN Step(games, used,
                 HTTPException("get_game", game_id, None, NoColumn, 404, "Game not found"))
       ELSE Step(games, used, Ok("get_game", game_id, None, NoColumn, games[game_id]))

\* variant: the winner is not cleared
Restarted_keeps_winner(game) ==
    [game EXCEPT !.board = EmptyBoard, !.status = IN_PROGRESS, !.current_turn = "p1"]

\* variant: current_turn is not reset
Restarted_keeps_turn(game) ==
    [game EXCEPT !.board = EmptyBoard, !.winner = None, !.status = IN_PROGRESS]

\* variant: the board is not cleared
Restarted_keeps_board(game) ==
    [game EXCEPT !.winner = None, !.status = IN_PROGRESS, !.current_turn = "p1"]

\* the four assignments of restart_game
Restarted(game) ==
    [game EXCEPT !.board = EmptyBoard, !.winner = None,
                 !.status = IN_PROGRESS, !.current_turn = "p1"]

\* variant: every held game is reset, not only the one named
restart_game_all(game_id) ==
    /\ Ready
    /\ IF game_id \notin DOMAIN games
       THEN Step(games, used,
                 HTTPException("restart_game", game_id, None, NoColumn, 404, "Game not found"))
       ELSE Step([i \in DOMAIN games |-> Restarted(games[i])], used,
                 Ok("restart_game", game_id, None, NoColumn, Restarted(games[game_id])))

\* POST /games/{game_id}/restart
restart_game(game_id) ==
    /\ Ready
    /\ IF game_id \notin DOMAIN games
       THEN Step(games, used,
                 HTTPException("restart_game", game_id, None, NoColumn, 404, "Game not found"))
       ELSE LET game == Restarted(games[game_id])
            IN  Step([games EXCEPT ![game_id] = game], used,
                     Ok("restart_game", game_id, None, NoColumn, game))

\* variant: quitting a game that is not held answers like a quit that removed it
quit_game_idempotent(game_id) ==
    /\ Ready
    /\ Step([i \in DOMAIN games \ {game_id} |-> games[i]], used,
            Ok("quit_game", game_id, None, NoColumn,
               [message |-> "Game has been quit.", game_id |-> game_id]))

\* variant: the game is reported as quit but stays in `games`
quit_game_keeps(game_id) ==
    /\ Ready
    /\ IF game_id \notin DOMAIN games
       THEN Step(games, used,
                 HTTPException("quit_game", game_id, None, NoColumn, 404, "Game not found"))
       ELSE Step(games, used,
                 Ok("quit_game", game_id, None, NoColumn,
                    [message |-> "Game has been quit.", game_id |-> game_id]))

\* POST /games/{game_id}/quit
quit_game(game_id) ==
    /\ Ready
    /\ IF game_id \notin DOMAIN games
       THEN Step(games, used,
                 HTTPException("quit_game", game_id, None, NoColumn, 404, "Game not found"))
       ELSE Step([i \in DOMAIN games \ {game_id} |-> games[i]], used,
                 Ok("quit_game", game_id, None, NoColumn,
                    [message |-> "Game has been quit.", game_id |-> game_id]))

\* POST /games/{game_id}/moves
make_move(game_id, player_id, column) ==
    /\ Ready
    /\ IF game_id \notin DOMAIN games
       THEN Step(games, used,
                 HTTPException("make_move", game_id, player_id, column, 404,
                               "Game not found"))
       ELSE LET result == GameLogic_make_move(games[game_id], player_id, column)
            IN  IF "error" \in DictKeys(result.ret)
                THEN Step([games EXCEPT ![game_id] = result.game], used,
                          HTTPException("make_move", game_id, player_id, column, 400,
                                        result.ret.error))
                ELSE Step([games EXCEPT ![game_id] = result.game], used,
                          Ok("make_move", game_id, player_id, column, result.game))

\* variant: the column picked for the turn holder is played as well
get_next_move_applies(game_id) ==
    /\ Ready
    /\ IF game_id \notin DOMAIN games
       THEN Step(games, used,
                 HTTPException("get_next_move", game_id, None, NoColumn, 404,
                               "Game not found"))
       ELSE \E next_move \in GameLogic_get_next_move(games[game_id]) :
              IF ~next_move.isdict
              THEN LET game == games[game_id]
                       moved == GameLogic_make_move(game, game.current_turn,
                                                    next_move.int).game
                   IN  Step([games EXCEPT ![game_id] = moved], used,
                            Unhandled("get_next_move", game_id, None, NoColumn,
                                      "TypeError"))
              ELSE Step(games, used,
                        Unhandled("get_next_move", game_id, None, NoColumn, "KeyError"))

\* POST /games/{game_id}/next_move
get_next_move(game_id) ==
    /\ Ready
    /\ IF game_id \notin DOMAIN games
       THEN Step(games, used,
                 HTTPException("get_next_move", game_id, None, NoColumn, 404,
                               "Game not found"))
       ELSE \E next_move \in GameLogic_get_next_move(games[game_id]) :
              \* `next_move is None` never holds: the engine returns an int or a dict.
              \* next_move["next_move"]: an int is not subscriptable (TypeError) and
              \* the engine's dicts hold no such key (KeyError)
              IF ~next_move.isdict
              THEN Step(games, used,
                        Unhandled("get_next_move", game_id, None, NoColumn, "TypeError"))
              ELSE IF "next_move" \notin DictKeys(next_move)
              THEN Step(games, used,
                        Unhandled("get_next_move", game_id, None, NoColumn, "KeyError"))
              ELSE Step(games, used,
                        Ok("get_next_move", game_id, None, NoColumn,
                           [message |-> "Next move calculated.",
                            next_move |-> next_move.next_move]))

----------------------------------------------------------------------------
(* Worker threads.  The handlers are plain `def` functions, which FastAPI   *)
(* runs on a pool of threads, and neither `games` nor GameLogic takes a     *)
(* lock: two requests for one game run GameLogic.make_move on the same      *)
(* Game object, and a thread can be preempted between any two statements.   *)
(* Each action below is a run of consecutive statements of make_move that   *)
(* one thread executes without being preempted.                            *)

Workers == {"w1", "w2"}

\* `row` of a thread that is not inside the loop
NoRow == ROWS

\* a thread of the pool that serves no request
Idle ==
    [pc |-> "idle", game_id |-> None, player_id |-> None, column |-> NoColumn,
     row |-> NoRow, ret |-> None]

\* what thread w does to `threads` and to the game it works on
ThreadStep(w, thread2, games2) ==
    /\ threads' = [threads EXCEPT ![w] = thread2]
    /\ games' = games2
    /\ UNCHANGED <<prev, used, resp, calls>>

\* the checks of make_move, in order: the error of the first that fails,
\* None when all pass
Precondition(game, player_id, column) ==
    IF AlreadyWon(game) THEN "Game already won."
    ELSE IF game.current_turn # player_id THEN "It's not your turn."
    ELSE IF column < 0 \/ column >= COLS THEN "Column out of bounds."
    ELSE IF game.board[0][column] # None THEN "Column is full."
    ELSE None

\* routes.make_move up to the call: the game is looked up and
\* game_logic.make_move(player_id, column) is entered
Begin(w, game_id, player_id, column) ==
    /\ threads[w].pc = "idle"
    /\ game_id \in DOMAIN games
    /\ ThreadStep(w, [Idle EXCEPT !.pc = "checks", !.game_id = game_id,
                                  !.player_id = player_id, !.column = column],
                  games)

\* the four checks; the first that fails returns its error dict
Checks(w) ==
    LET thread == threads[w]
        error == Precondition(games[thread.game_id], thread.player_id, thread.column)
    IN  /\ thread.pc = "checks"
        /\ IF error # None
           THEN ThreadStep(w, [thread EXCEPT !.pc = "done", !.ret = error], games)
           ELSE ThreadStep(w, [thread EXCEPT !.pc = "loop"], games)

\* the loop up to the test that succeeds: `row` is the lowest empty cell of
\* the column as the board is now
FindRow(w) ==
    LET thread == threads[w]
        row == DropRow(games[thread.game_id].board, thread.column)
    IN  /\ thread.pc = "loop"
        /\ IF row >= 0
           THEN ThreadStep(w, [thread EXCEPT !.pc = "write", !.row = row], games)
           ELSE ThreadStep(w, [thread EXCEPT !.pc = "done", !.ret = "Invalid move."],
                           games)

\* self.game.board[row][column] = player_id
WriteCell(w) ==
    LET thread == threads[w]
    IN  /\ thread.pc = "write"
        /\ ThreadStep(w, [thread EXCEPT !.pc = "decide"],
                      [games EXCEPT ![thread.game_id].board[thread.row][thread.column] =
                                      thread.player_id])

\* the rest of the loop body: winner and status, or the turn passed on, read
\* and written on the game as it is now; the Game is returned
Decide(w) ==
    LET thread == threads[w]
        game == games[thread.game_id]
        decided ==
            IF check_winner(game.board, thread.row, thread.column)
            THEN [game EXCEPT !.winner = thread.player_id, !.status = WON]
            ELSE IF BoardFull(game.board)
            THEN [game EXCEPT !.status = DRAW]
            ELSE [game EXCEPT !.current_turn = OtherTurn(game.current_turn)]
    IN  /\ thread.pc = "decide"
        /\ ThreadStep(w, [thread EXCEPT !.pc = "done", !.ret = "ok"],
                      [games EXCEPT ![thread.game_id] = decided])

----------------------------------------------------------------------------
(* Initial states: the empty registry of a fresh process, and registries   *)
(* holding one game that a client has already played into a position.     *)
(* Each position is given by the columns of its moves and is built by      *)
(* replaying them through GameLogic_make_move, so it is one the program    *)
(* reaches.                                                                *)

RECURSIVE Replay(_, _, _)
\* the game after the moves columns[i], columns[i+1], ..., each made by the
\* slot whose turn it is; the replay stops at a move the engine rejects
Replay(game, columns, i) ==
    IF i > Len(columns) THEN game
    ELSE LET moved == GameLogic_make_move(game, game.current_turn, columns[i]).game
         IN  IF moved = game THEN game ELSE Replay(moved, columns, i + 1)

\* the 42 moves of a drawn game, and of a game won by its 42nd move
DrawnGame ==
    <<4, 3, 6, 0, 1, 4, 5, 5, 1, 1, 5, 0, 1, 6, 0, 1, 5, 5, 1, 0, 4,
      6, 3, 2, 6, 6, 0, 4, 6, 5, 2, 0, 4, 2, 4, 2, 2, 2, 3, 3, 3, 3>>
LastCellWin ==
    <<4, 5, 6, 4, 4, 4, 3, 4, 1, 2, 3, 2, 5, 3, 0, 6, 1, 1, 4, 6, 0,
      2, 2, 3, 0, 5, 6, 0, 3, 1, 1, 0, 0, 5, 3, 6, 1, 2, 6, 2, 5, 5>>

Positions ==
    { <<>>,
      <<0, 0, 1, 1, 2, 2>>,                 \* p1 one short of a row
      <<0, 6, 1, 6, 3, 5>>,                 \* p1 one short, the gap inside the row
      <<0, 1, 0, 1, 0, 1>>,                 \* both one short of a column
      <<0, 1, 1, 2, 2, 3, 2, 3, 3, 6>>,     \* p1 one short of a rising diagonal
      <<6, 5, 5, 4, 4, 3, 4, 3, 3, 0>>,     \* p1 one short of a falling diagonal
      <<3, 3, 3, 3, 3, 3>>,                 \* column 3 full
      <<0, 1, 0, 1, 0, 1, 0>>,              \* won by p1
      SubSeq(DrawnGame, 1, 40),
      DrawnGame,
      SubSeq(LastCellWin, 1, 41) }

InitialGame(columns) ==
    Replay(NewGame("g1", "Alice", "Bob", "human", "human", 2), columns, 1)

NoRequest ==
    [op |-> "none", game_id |-> None, player_id |-> None, column |-> NoColumn,
     args |-> NoArgs, status_code |-> 200, detail |-> None, body |-> [detail |-> None]]

Init ==
    /\ \/ games = <<>>
       \/ \E columns \in Positions : games = ("g1" :> InitialGame(columns))
    /\ prev = games
    /\ used = DOMAIN games
    /\ resp = NoRequest
    /\ calls = 0
    /\ threads = [w \in Workers |-> Idle]

Next ==
    \/ list_games
    \/ \E player1_name \in Player1NameArgs, player2_name \in Player2NameArgs,
          num_human_players \in NumHumanPlayers :
         create_game(player1_name, player2_name, num_human_players)
    \/ \E game_id \in GameIds : get_game(game_id)
    \/ \E game_id \in GameIds : restart_game(game_id)
    \/ \E game_id \in GameIds : quit_game(game_id)
    \/ \E game_id \in GameIds, player_id \in PlayerIdArgs, column \in ColumnArgs :
         make_move(game_id, player_id, column)
    \/ \E game_id \in GameIds : get_next_move(game_id)

Spec == Init /\ [][Next]_vars

\* two threads of the pool, each serving one move request
NextThreads ==
    \/ \E w \in Workers, game_id \in GameIds, player_id \in PlayerIdArgs,
          column \in ColumnArgs :
         Begin(w, game_id, player_id, column)
    \/ \E w \in Workers : Checks(w)
    \/ \E w \in Workers : FindRow(w)
    \/ \E w \in Workers : WriteCell(w)
    \/ \E w \in Workers : Decide(w)

SpecThreads == Init /\ [][NextThreads]_vars

----------------------------------------------------------------------------
(* Play to the end.  A client keeps making legal moves on one game: the     *)
(* slot holding the turn plays into a column whose top cell is empty.  The  *)
(* games start from the positions OpenCells moves before the end of the two *)
(* 42-move games, so that every continuation can be followed to its end.    *)

\* cells still empty in the positions play starts from
OpenCells == 9

Endgames ==
    { SubSeq(DrawnGame, 1, ROWS * COLS - OpenCells),
      SubSeq(LastCellWin, 1, ROWS * COLS - OpenCells) }

InitPlay ==
    /\ \E columns \in Endgames : games = ("g1" :> InitialGame(columns))
    /\ prev = games
    /\ used = DOMAIN games
    /\ resp = NoRequest
    /\ calls = 0
    /\ threads = [w \in Workers |-> Idle]

\* POST /games/{game_id}/moves by the turn holder of a game in progress,
\* into a column that is open
legal_move(game_id, column) ==
    /\ game_id \in DOMAIN games
    /\ games[game_id].status = IN_PROGRESS
    /\ column \in empty_columns(games[game_id].board)
    /\ LET player_id == games[game_id].current_turn
           result == GameLogic_make_move(games[game_id], player_id, column)
       IN  /\ games' = [games EXCEPT ![game_id] = result.game]
           /\ resp' = IF "error" \in DictKeys(result.ret)
                      THEN HTTPException("make_move", game_id, player_id, column, 400,
                                         result.ret.error)
                      ELSE Ok("make_move", game_id, player_id, column, result.game)
    /\ prev' = games
    /\ UNCHANGED <<used, calls, threads>>

NextPlay ==
    \E game_id \in GameIds, column \in Cols : legal_move(game_id, column)

\* the client does not stop while a legal move exists
SpecPlay == InitPlay /\ [][NextPlay]_vars /\ WF_vars(NextPlay)

----------------------------------------------------------------------------
(* Properties.  They are stated over the request in resp, the registry     *)
(* `prev` the request found and the registry `games` it left.              *)

\* the error kind a response carries: 404 and 500 by status, the 400s by
\* their detail
ErrorKind(r) ==
    IF r.status_code = 200 THEN "ok"
    ELSE IF r.status_code = 404 THEN "NotFound"
    ELSE IF r.status_code = 500 THEN "UnhandledException"
    ELSE IF r.detail = "Game already won." THEN "GameAlreadyDecided"
    ELSE IF r.detail = "It's not your turn." THEN "NotYourTurn"
    ELSE IF r.detail = "Column out of bounds." THEN "ColumnOutOfBounds"
    ELSE IF r.detail = "Column is full." THEN "ColumnFull"
    ELSE IF r.detail = "Invalid move." THEN "InvalidMove"
    ELSE IF r.detail \in {"Board is full.", "No valid moves available"}
    THEN "NoLegalMoves"
    ELSE IF r.detail \in {"Player 1 name is required for one human player.",
                          "Both player names are required for two human players."}
    THEN "InvalidCreationArgs"
    ELSE "Unlisted"

ListedKinds ==
    {"NotFound", "InvalidCreationArgs", "GameAlreadyDecided", "NotYourTurn",
     "ColumnOutOfBounds", "ColumnFull", "InvalidMove", "NoLegalMoves"}

\* the last request was apply move on game g, which existed
MoveOn(g) == resp.op = "make_move" /\ resp.game_id = g /\ g \in DOMAIN prev

SuccessfulMove(g) == MoveOn(g) /\ resp.status_code = 200
RejectedMove(g) == MoveOn(g) /\ resp.status_code # 200

\* the last request was select computer move on game g, which existed
SelectOn(g) == resp.op = "get_next_move" /\ resp.game_id = g /\ g \in DOMAIN prev

Slots == {"p1", "p2"}
Opposite(slot) == CHOOSE other \in Slots : other # slot

MaxOf(S) == CHOOSE x \in S : \A y \in S : y <= x

\* four cells of player_id in a line of direction (row_dir, col_dir), the
\* cell (row, column) among them
FourInLine(board, row, column, player_id, row_dir, col_dir) ==
    \E k \in 0 .. 3 :
      \A i \in 0 .. 3 :
        LET r == row + (i - k) * row_dir
            c == column + (i - k) * col_dir
        IN  r \in Rows /\ c \in Cols /\ board[r][c] = player_id

\* horizontal, vertical and the two diagonals
Directions == {<<0, 1>>, <<1, 0>>, <<1, 1>>, <<1, 0 - 1>>}

FourThrough(board, row, column, player_id) ==
    \E d \in Directions : FourInLine(board, row, column, player_id, d[1], d[2])

\* the row of the cell a successful move on g wrote
PlacedRow(g) ==
    CHOOSE r \in Rows : games[g].board[r][resp.column] # prev[g].board[r][resp.column]

----------------------------------------------------------------------------
\* C1 (as stated): a move on a game whose status is won or draw fails with
\* GameAlreadyDecided and leaves the board as it was.
C1_DecidedRejectsAsDecided ==
    \A g \in GameIds :
      (MoveOn(g) /\ prev[g].status \in {WON, DRAW})
        => /\ ErrorKind(resp) = "GameAlreadyDecided"
           /\ games[g].board = prev[g].board

\* C1 (amended): a move on a won game fails with GameAlreadyDecided; a move
\* on a drawn game fails with NotYourTurn, ColumnOutOfBounds or ColumnFull;
\* either way the game is left as it was.
C1_DecidedRejects ==
    \A g \in GameIds :
      /\ (MoveOn(g) /\ prev[g].status = WON)
           => ErrorKind(resp) = "GameAlreadyDecided" /\ games[g] = prev[g]
      /\ (MoveOn(g) /\ prev[g].status = DRAW)
           => /\ ErrorKind(resp) \in {"NotYourTurn", "ColumnOutOfBounds", "ColumnFull"}
              /\ games[g] = prev[g]

\* a move by the slot holding the turn, into a column with room, on a won game
C1_Witness ==
    \E g \in GameIds :
      /\ MoveOn(g) /\ prev[g].status = WON
      /\ resp.player_id = prev[g].current_turn
      /\ resp.column \in Cols /\ prev[g].board[0][resp.column] = None
      /\ resp.detail = "Game already won."

\* C2: select computer move on an in-progress game with an open column
\* answers with a column in 0..6 whose top cell is empty.
C2_SelectReturnsOpenColumn ==
    \A g \in GameIds :
      (SelectOn(g) /\ prev[g].status = IN_PROGRESS /\ empty_columns(prev[g].board) # {})
        => /\ resp.status_code = 200
           /\ resp.body.next_move \in Cols
           /\ prev[g].board[0][resp.body.next_move] = None

\* C3: a successful move wins for the mover exactly when four of the mover's
\* cells lie in a line through the cell just written.
C3_WinIffFourThroughPlaced ==
    \A g \in GameIds :
      SuccessfulMove(g)
        => ((games[g].status = WON /\ games[g].winner = resp.player_id)
              <=> FourThrough(games[g].board, PlacedRow(g), resp.column, resp.player_id))

\* a win along one diagonal (row + 1, column - 1) and along no other line
C3_Witness ==
    \E g \in GameIds :
      /\ SuccessfulMove(g) /\ games[g].status = WON
      /\ LET b == games[g].board
             r == PlacedRow(g)
             c == resp.column
             p == resp.player_id
         IN  /\ FourInLine(b, r, c, p, 1, 0 - 1)
             /\ ~FourInLine(b, r, c, p, 0, 1)
             /\ ~FourInLine(b, r, c, p, 1, 0)
             /\ ~FourInLine(b, r, c, p, 1, 1)

\* C4: a successful move is made by the slot holding the turn, which is p1
\* on an empty board, and passes the turn to the other slot unless it
\* decides the game; creation and restart give the turn to p1.
C4_TurnsAlternate ==
    \A g \in GameIds :
      /\ SuccessfulMove(g)
           => /\ resp.player_id = prev[g].current_turn
              /\ prev[g].board = EmptyBoard => resp.player_id = "p1"
              /\ games[g].status = IN_PROGRESS
                   => games[g].current_turn = Opposite(resp.player_id)
      /\ (resp.op \in {"create_game", "restart_game"} /\ resp.status_code = 200
          /\ resp.game_id = g)
           => games[g].current_turn = "p1"

\* p2 has just moved, after p1, and the turn is back with p1
C4_Witness ==
    \E g \in GameIds :
      /\ SuccessfulMove(g) /\ resp.player_id = "p2"
      /\ games[g].status = IN_PROGRESS /\ games[g].current_turn = "p1"
      /\ Cardinality({c \in Cols : games[g].board[ROWS - 1][c] # None}) = 2

\* C5: a rejected move leaves the registry, and so every field of the game,
\* as it was; a move by a slot not holding the turn leaves the board as it was.
C5_RejectedMoveChangesNothing ==
    /\ (resp.op = "make_move" /\ resp.status_code # 200) => games = prev
    /\ \A g \in GameIds :
         (MoveOn(g) /\ resp.player_id # prev[g].current_turn)
           => games[g].board = prev[g].board

\* the wrong slot asks for a column with room on an in-progress game
C5_Witness ==
    \E g \in GameIds :
      /\ RejectedMove(g) /\ prev[g].status = IN_PROGRESS
      /\ resp.player_id = Opposite(prev[g].current_turn)
      /\ resp.column \in Cols /\ prev[g].board[0][resp.column] = None
      /\ prev[g].board # EmptyBoard

\* the outcome section 4.2 of the specification gives a move: its four
\* checks in order, the first being `decided`
FirstFailingCheck(decided, game, player_id, column) ==
    IF decided THEN "GameAlreadyDecided"
    ELSE IF player_id # game.current_turn THEN "NotYourTurn"
    ELSE IF column < 0 \/ column >= 7 THEN "ColumnOutOfBounds"
    ELSE IF game.board[0][column] # None THEN "ColumnFull"
    ELSE "ok"

\* C6 (as stated): the outcome of a move is that of the first failing check
\* among status not in-progress, wrong slot, column out of range, column full.
C6_ChecksInOrderByStatus ==
    \A g \in GameIds :
      MoveOn(g)
        => ErrorKind(resp) = FirstFailingCheck(prev[g].status # IN_PROGRESS, prev[g],
                                               resp.player_id, resp.column)

\* C6 (amended): the first check is that the game is won; a drawn game goes
\* on to the other three checks.
C6_ChecksInOrder ==
    \A g \in GameIds :
      MoveOn(g)
        => ErrorKind(resp) = FirstFailingCheck(prev[g].status = WON, prev[g],
                                               resp.player_id, resp.column)

\* a move failing the second and the third check is reported by the second
C6_Witness ==
    \E g \in GameIds :
      /\ MoveOn(g) /\ prev[g].status = IN_PROGRESS
      /\ resp.player_id # prev[g].current_turn
      /\ resp.column \notin Cols
      /\ ErrorKind(resp) = "NotYourTurn"

\* C7: a successful move into column c writes the mover into the lowest
\* empty cell of c and changes no other cell; on an empty board a move into
\* column 3 lands at row 5.
C7_Gravity ==
    \A g \in GameIds :
      SuccessfulMove(g)
        => LET free == {r \in Rows : prev[g].board[r][resp.column] = None}
           IN  /\ free # {}
               /\ \A r \in Rows : \A c \in Cols :
                    games[g].board[r][c] =
                      IF r = MaxOf(free) /\ c = resp.column
                      THEN resp.player_id ELSE prev[g].board[r][c]
               /\ (prev[g].board = EmptyBoard /\ resp.column = 3)
                    => games[g].board[5][3] = resp.player_id

\* a piece has come to rest on two others
C7_Witness ==
    \E g \in GameIds :
      /\ SuccessfulMove(g)
      /\ prev[g].board[4][resp.column] # None
      /\ prev[g].board[3][resp.column] = None
      /\ games[g].board[3][resp.column] = resp.player_id

\* C8: restart of a game in the registry succeeds and leaves it with an
\* empty board, in progress, no winner, p1 to move, id and players as before.
C8_Restart ==
    \A g \in GameIds :
      (resp.op = "restart_game" /\ resp.game_id = g /\ g \in DOMAIN prev)
        => /\ resp.status_code = 200
           /\ g \in DOMAIN games
           /\ games[g].board = [r \in Rows |-> [c \in Cols |-> None]]
           /\ games[g].status = IN_PROGRESS
           /\ games[g].winner = None
           /\ games[g].current_turn = "p1"
           /\ games[g].id = prev[g].id
           /\ games[g].players = prev[g].players

\* a drawn game, p2 having placed the last piece, has been restarted
C8_Witness ==
    \E g \in GameIds :
      /\ resp.op = "restart_game" /\ resp.game_id = g /\ g \in DOMAIN prev
      /\ prev[g].status = DRAW /\ prev[g].current_turn = "p2"
      /\ resp.status_code = 200

\* C9: select computer move fails with GameAlreadyDecided on a game that is
\* not in progress and with NoLegalMoves when every top cell is occupied; on
\* a full board without a win the caller receives NoLegalMoves.
C9_SelectErrors ==
    \A g \in GameIds :
      SelectOn(g)
        => /\ prev[g].status # IN_PROGRESS
                => ErrorKind(resp) \in {"GameAlreadyDecided", "NoLegalMoves"}
           /\ prev[g].status = WON => ErrorKind(resp) = "GameAlreadyDecided"
           /\ (empty_columns(prev[g].board) = {} /\ prev[g].winner = None)
                => ErrorKind(resp) = "NoLegalMoves"

\* C10: every request ends in its success result or in a listed error kind.
C10_NoUnhandledException ==
    ErrorKind(resp) \in ListedKinds \cup {"ok"}

\* a creation parameter that was not supplied
Missing(name) == name = None

\* the combinations of creation parameters that are to be rejected
MustReject(args) ==
    \/ args.num_human_players = 1 /\ Missing(args.player1_name)
    \/ args.num_human_players = 2
         /\ (Missing(args.player1_name) \/ Missing(args.player2_name))

\* C11: create session rejects with InvalidCreationArgs exactly when one
\* human is asked for without player1_name, or two humans without both names;
\* every other combination inserts a new session and returns its snapshot.
C11_CreateRejectsIff ==
    resp.op = "create_game"
      => /\ ErrorKind(resp) = "InvalidCreationArgs" <=> MustReject(resp.args)
         /\ ~MustReject(resp.args)
              => /\ resp.status_code = 200
                 /\ resp.game_id \notin DOMAIN prev
                 /\ DOMAIN games = DOMAIN prev \cup {resp.game_id}
                 /\ resp.body = games[resp.game_id]

\* number of pieces on a board
Pieces(board) == Cardinality({cell \in Rows \X Cols : board[cell[1]][cell[2]] # None})

\* pieces of one slot on a board
PiecesOf(board, player_id) ==
    Cardinality({cell \in Rows \X Cols : board[cell[1]][cell[2]] = player_id})

\* the game after move request `first` and then move request `second`, each
\* run from start to end
OneAfterAnother(game, first, second) ==
    GameLogic_make_move(
        GameLogic_make_move(game, first.player_id, first.column).game,
        second.player_id, second.column).game

\* C12: with concurrent workers, two overlapping apply-move requests on one
\* session leave it as running them one after the other, in some order, would;
\* every successful move adds one piece (none is overwritten), and a slot
\* never places two pieces in one turn.
C12_OverlappingMovesSerialize ==
    \A g \in GameIds :
      (/\ \A w \in Workers : threads[w].pc = "done" /\ threads[w].game_id = g
       /\ g \in DOMAIN games)
        => /\ games[g] \in {OneAfterAnother(prev[g], threads["w1"], threads["w2"]),
                            OneAfterAnother(prev[g], threads["w2"], threads["w1"])}
           /\ Pieces(games[g].board) - Pieces(prev[g].board)
                = Cardinality({w \in Workers : threads[w].ret = "ok"})
           /\ PiecesOf(games[g].board, "p1") - PiecesOf(games[g].board, "p2") \in {0, 1}

\* C13: a successful move that fills the last of the 42 cells without making
\* four in line sets status to draw and leaves winner absent; if that move
\* makes four in line, the status is won (winner the mover), not draw.
C13_LastCell ==
    \A g \in GameIds :
      (SuccessfulMove(g) /\ BoardFull(games[g].board))
        => IF FourThrough(games[g].board, PlacedRow(g), resp.column, resp.player_id)
           THEN games[g].status = WON /\ games[g].winner = resp.player_id
           ELSE games[g].status = DRAW /\ games[g].winner = None

\* the last cell has been filled without four in line: the game is drawn
C13_Witness ==
    \E g \in GameIds :
      /\ SuccessfulMove(g) /\ BoardFull(games[g].board)
      /\ ~BoardFull(prev[g].board)
      /\ ~FourThrough(games[g].board, PlacedRow(g), resp.column, resp.player_id)
      /\ games[g].status = DRAW

\* C14: on a game in progress, a move by the slot holding the turn into a
\* column 0..6 is rejected with ColumnFull exactly when the top cell of that
\* column is occupied; when the top cell is empty the move succeeds.
C14_ColumnFullIffTopOccupied ==
    \A g \in GameIds :
      (/\ MoveOn(g)
       /\ prev[g].status = IN_PROGRESS
       /\ resp.player_id = prev[g].current_turn
       /\ resp.column \in Cols)
        => /\ ErrorKind(resp) = "ColumnFull" <=> prev[g].board[0][resp.column] # None
           /\ prev[g].board[0][resp.column] = None => resp.status_code = 200

\* the turn holder of a game in progress has played into a full column
C14_Witness ==
    \E g \in GameIds :
      /\ MoveOn(g)
      /\ prev[g].status = IN_PROGRESS
      /\ resp.player_id = prev[g].current_turn
      /\ resp.column \in Cols
      /\ prev[g].board[0][resp.column] # None
      /\ ErrorKind(resp) = "ColumnFull"

\* C15: in every reachable state, every game has a winner exactly when its
\* status is won, and a winner is p1 or p2, whatever sequence of create,
\* apply move, select move and restart led there.
C15_WinnerIffWon ==
    \A g \in DOMAIN games :
      /\ games[g].winner # None <=> games[g].status = WON
      /\ games[g].winner # None => games[g].winner \in Slots

\* a game that was won has been restarted: it is in progress again
C15_Witness ==
    \E g \in GameIds :
      /\ resp.op = "restart_game" /\ resp.game_id = g /\ g \in DOMAIN prev
      /\ prev[g].status = WON /\ prev[g].winner = "p2"
      /\ resp.status_code = 200
      /\ games[g].status = IN_PROGRESS

\* C16: once the status of a game has left in-progress, its status, winner
\* and board stay exactly as they are across every operation other than a
\* restart of that game, for as long as the game is held.
C16_DecidedIsFrozen ==
    \A g \in DOMAIN prev \cap DOMAIN games :
      (/\ prev[g].status # IN_PROGRESS
       /\ ~(resp.op = "restart_game" /\ resp.game_id = g))
        => /\ games[g].status = prev[g].status
           /\ games[g].winner = prev[g].winner
           /\ games[g].board = prev[g].board

\* a move into an open column of a won game, by the slot that would be next
C16_Witness ==
    \E g \in GameIds :
      /\ MoveOn(g)
      /\ prev[g].status = WON
      /\ resp.player_id # prev[g].winner /\ resp.player_id \in Slots
      /\ resp.column \in empty_columns(prev[g].board)
      /\ g \in DOMAIN games /\ games[g].board = prev[g].board

\* the operations that take a game id
OnGameId == {"get_game", "restart_game", "quit_game", "make_move", "get_next_move"}

\* C17: get, restart, discard, apply move and select computer move on an id
\* that is not in the registry each fail with NotFound and leave the registry
\* and every game it holds unchanged.
C17_UnknownIdNotFound ==
    (resp.op \in OnGameId /\ resp.game_id \notin DOMAIN prev)
      => /\ ErrorKind(resp) = "NotFound"
         /\ games = prev

\* a request for an id that was never handed out, while another game is held
C17_Witness ==
    /\ resp.op \in OnGameId
    /\ resp.game_id \notin DOMAIN prev
    /\ resp.game_id \notin used
    /\ DOMAIN prev # {}
    /\ resp.status_code = 404

\* ids handed out before the last request whose game it no longer found:
\* the games discarded so far
Discarded ==
    {id \in used \ DOMAIN prev :
       ~(resp.op = "create_game" /\ resp.status_code = 200 /\ resp.game_id = id)}

\* C18: a successful discard removes the game from the registry and leaves
\* all other games as they were; from then on list does not contain it and
\* get, restart, apply move, select move and discard on its id yield NotFound.
C18_DiscardRemoves ==
    /\ (resp.op = "quit_game" /\ resp.status_code = 200)
         => /\ resp.game_id \in DOMAIN prev
            /\ DOMAIN games = DOMAIN prev \ {resp.game_id}
            /\ \A other \in DOMAIN games : games[other] = prev[other]
    /\ \A id \in Discarded :
         /\ id \notin DOMAIN games
         /\ (resp.op \in OnGameId /\ resp.game_id = id) => ErrorKind(resp) = "NotFound"
         /\ resp.op = "list_games" => \A item \in resp.body.items : item.id # id

\* a game was discarded while another one stays held, and a later request
\* on the discarded id has been answered
C18_Witness ==
    /\ resp.op \in OnGameId
    /\ resp.game_id \in Discarded
    /\ DOMAIN games # {}
    /\ games = prev
    /\ resp.status_code = 404

\* C19: the game a successful create returns has an id that no other held
\* game has, an all-empty 6x7 board, current_turn p1, status in-progress, no
\* winner, and exactly the slots p1 and p2, p1 human iff num_human_players
\* >= 1 and p2 human iff num_human_players = 2, the others computer.
C19_CreatedGame ==
    (resp.op = "create_game" /\ resp.status_code = 200)
      => LET id == resp.game_id
             game == resp.body
             TypeOf(human) == IF human THEN "human" ELSE "computer"
         IN  /\ id \notin DOMAIN prev
             /\ id \in DOMAIN games /\ games[id] = game
             /\ game.id = id
             /\ \A other \in DOMAIN games \ {id} :
                  games[other].id # id /\ games[other] = prev[other]
             /\ DOMAIN game.board = Rows
             /\ \A r \in Rows : DOMAIN game.board[r] = Cols
             /\ \A r \in Rows : \A c \in Cols : game.board[r][c] = None
             /\ game.current_turn = "p1"
             /\ game.status = IN_PROGRESS
             /\ game.winner = None
             /\ DOMAIN game.players = Slots
             /\ \A slot \in Slots : game.players[slot].id = slot
             /\ game.players["p1"].type = TypeOf(resp.args.num_human_players >= 1)
             /\ game.players["p2"].type = TypeOf(resp.args.num_human_players = 2)

\* a game for one human has been created while another game is held
C19_Witness ==
    /\ resp.op = "create_game" /\ resp.status_code = 200
    /\ resp.args.num_human_players = 1
    /\ DOMAIN prev # {}
    /\ resp.game_id \in DOMAIN games

\* the operations that only read
ReadOnly == {"get_game", "list_games", "get_next_move"}

\* C20: get, list and select computer move change no field of any game and
\* not the registry; a successful get returns the game as it is held, so two
\* gets of one id with no mutation in between return identical snapshots.
C20_ReadsChangeNothing ==
    /\ resp.op \in ReadOnly => games = prev
    /\ (resp.op = "get_game" /\ resp.status_code = 200)
         => /\ resp.game_id \in DOMAIN prev
            /\ resp.body = prev[resp.game_id]
            /\ resp.body = games[resp.game_id]
    /\ (resp.op = "list_games" /\ resp.status_code = 200)
         => resp.body.items = {prev[g] : g \in DOMAIN prev}

\* select computer move has been asked for a game in progress with pieces on
\* the board, while two games are held
C20_Witness ==
    \E g \in GameIds :
      /\ SelectOn(g)
      /\ prev[g].status = IN_PROGRESS
      /\ Pieces(prev[g].board) > 0
      /\ Cardinality(DOMAIN prev) = 2
      /\ games = prev

\* C21: in every reachable state every game has a board of exactly 6 rows of
\* 7 cells, every cell empty or holding p1 or p2, and current_turn p1 or p2,
\* whatever slot strings and column numbers were passed to apply move.
C21_WellFormed ==
    \A g \in DOMAIN games :
      /\ DOMAIN games[g].board = Rows
      /\ \A r \in Rows :
           /\ DOMAIN games[g].board[r] = Cols
           /\ \A c \in Cols : games[g].board[r][c] \in Slots \cup {None}
      /\ games[g].current_turn \in Slots

\* apply move has been called with a slot that is neither p1 nor p2, on an
\* open column of a game in progress
C21_Witness ==
    \E g \in GameIds :
      /\ MoveOn(g)
      /\ prev[g].status = IN_PROGRESS
      /\ resp.player_id \notin Slots
      /\ resp.column \in empty_columns(prev[g].board)
      /\ g \in DOMAIN games

\* four consecutive cells of one slot somewhere on the board, found by
\* scanning every cell in every direction
FourAnywhere(board) ==
    \E row \in Rows, column \in Cols :
      /\ board[row][column] # None
      /\ \E d \in Directions :
           \A i \in 1 .. 3 :
             LET r == row + i * d[1]
                 c == column + i * d[2]
             IN  r \in Rows /\ c \in Cols /\ board[r][c] = board[row][column]

\* C22: checking only the four lines through the latest placement amounts to
\* scanning the whole board: in every reachable state a game's status is won
\* exactly when its board holds four consecutive cells of one slot somewhere,
\* so a game in progress or drawn holds no four in line anywhere.
C22_WonIffFourAnywhere ==
    \A g \in DOMAIN games :
      games[g].status = WON <=> FourAnywhere(games[g].board)

\* a move has just made four in line on a diagonal, on a board that held no
\* four in line before
C22_Witness ==
    \E g \in GameIds :
      /\ SuccessfulMove(g)
      /\ ~FourAnywhere(prev[g].board)
      /\ games[g].status = WON
      /\ FourInLine(games[g].board, PlacedRow(g), resp.column, resp.player_id, 1, 0 - 1)

\* C23: a successful move that decides the game leaves current_turn at the
\* acting slot: whenever status is won, current_turn equals winner, and
\* whenever status is draw, current_turn is the slot that placed the last
\* piece (p2, who places the 42nd).
C23_DecidingMoveKeepsTurn ==
    /\ \A g \in GameIds :
         (SuccessfulMove(g) /\ games[g].status # IN_PROGRESS)
           => /\ games[g].current_turn = resp.player_id
              /\ games[g].current_turn = prev[g].current_turn
    /\ \A g \in DOMAIN games :
         /\ games[g].status = WON => games[g].current_turn = games[g].winner
         /\ games[g].status = DRAW => games[g].current_turn = "p2"

\* p2 has just placed the last piece of a drawn game
C23_Witness ==
    \E g \in GameIds :
      /\ SuccessfulMove(g)
      /\ prev[g].status = IN_PROGRESS
      /\ games[g].status = DRAW
      /\ resp.player_id = "p2"

\* C24: the InvalidMove fallback of apply move is unreachable: in every
\* reachable state a column whose top cell is empty has an empty cell for the
\* loop to find, so a call that passes the four checks places a piece and no
\* apply move returns InvalidMove.
C24_InvalidMoveUnreachable ==
    /\ ErrorKind(resp) # "InvalidMove"
    /\ \A g \in DOMAIN games :
         \A column \in empty_columns(games[g].board) :
           DropRow(games[g].board, column) >= 0
    /\ \A g \in GameIds :
         (/\ MoveOn(g)
          /\ Precondition(prev[g], resp.player_id, resp.column) = None)
           => /\ resp.status_code = 200
              /\ Pieces(games[g].board) = Pieces(prev[g].board) + 1

\* a call passed the four checks on a column with a single empty cell left
C24_Witness ==
    \E g \in GameIds :
      /\ MoveOn(g)
      /\ Precondition(prev[g], resp.player_id, resp.column) = None
      /\ prev[g].board[1][resp.column] # None
      /\ resp.status_code = 200

\* C25: games are isolated: apply move, restart and select move on one game,
\* successful or not, and create or discard of one game, leave every other
\* held game in the registry with every field unchanged.
C25_Isolation ==
    \A other \in DOMAIN prev :
      other # resp.game_id
        => /\ other \in DOMAIN games
           /\ games[other] = prev[other]

\* a move has been placed on one of two held games, the other one holding
\* pieces of its own
C25_Witness ==
    \E g \in GameIds, other \in GameIds :
      /\ other # g
      /\ SuccessfulMove(g)
      /\ other \in DOMAIN prev
      /\ Pieces(prev[other].board) > 0
      /\ games[other] = prev[other]

\* C26: with requests handled one at a time, in every reachable state the
\* number of p1 cells minus the number of p2 cells is 0 or 1, and while the
\* status is in-progress current_turn is p1 exactly when the two numbers are
\* equal, across accepted moves, rejected moves and restarts.
C26_PieceBalance ==
    \A g \in DOMAIN games :
      LET p1 == PiecesOf(games[g].board, "p1")
          p2 == PiecesOf(games[g].board, "p2")
      IN  /\ p1 - p2 \in {0, 1}
          /\ games[g].status = IN_PROGRESS
               => (games[g].current_turn = "p1" <=> p1 = p2)

\* a move by p2 was rejected while p1 holds the turn of a game in progress
\* with pieces on the board
C26_Witness ==
    \E g \in GameIds :
      /\ RejectedMove(g)
      /\ resp.player_id = "p2"
      /\ prev[g].status = IN_PROGRESS /\ prev[g].current_turn = "p1"
      /\ Pieces(prev[g].board) > 0
      /\ g \in DOMAIN games
      /\ PiecesOf(games[g].board, "p1") = PiecesOf(games[g].board, "p2")

\* while a game is in progress a legal column exists, the board holds fewer
\* than 42 pieces, and a successful move has added exactly one piece
EndsWithin42 ==
    /\ \A g \in DOMAIN games :
         /\ Pieces(games[g].board) <= ROWS * COLS
         /\ games[g].status = IN_PROGRESS
              => /\ empty_columns(games[g].board) # {}
                 /\ Pieces(games[g].board) < ROWS * COLS
    /\ \A g \in GameIds :
         SuccessfulMove(g) => Pieces(games[g].board) = Pieces(prev[g].board) + 1

\* every held game is decided
AllDecided == \A g \in DOMAIN games : games[g].status # IN_PROGRESS

\* C27: a game always ends: while the status is in-progress the board is
\* never full, each successful move adds exactly one piece, and a run of
\* legal moves that is kept up reaches status won or draw, at the 42nd piece
\* at the latest.
C27_GameEnds == []EndsWithin42 /\ <>[]AllDecided

\* play has reached a decision on the 42nd piece
C27_Witness ==
    \E g \in GameIds :
      /\ SuccessfulMove(g)
      /\ prev[g].status = IN_PROGRESS
      /\ Pieces(games[g].board) = ROWS * COLS
      /\ games[g].status # IN_PROGRESS

============================================================================
